---- MODULE Spec2Model ----
(***************************************************************************)
(* Verification development for the Advent of Code 2024 solution archive. *)
(* Each part of the repository that a checked property talks about is      *)
(* modelled as its own state machine over its own variables:               *)
(*   SpecRun    the run() harness of src/lib.rs and the main functions     *)
(*   SpecParse  the grid parsers of day 6, day 15 and day 25               *)
(*   SpecDay3   the character state machine of day 3                       *)
(*   SpecDay6   the guard walk of day 6 (part 1 and part 2)                *)
(*   SpecDay5   the topological sort of day 5                              *)
(*   SpecDay8   the antinode scan of day 8 part 1                          *)
(*   SpecDay20  the cheat counting of day 20                               *)
(***************************************************************************)
EXTENDS Integers, Sequences, FiniteSets, Bags, TLC

VARIABLES
    \* ---- run() harness (src/lib.rs) ----
    program,        \* which binary runs: "day14", "day17" or "other"
    printProgram,   \* day 17 only: "--print-program" is among the arguments
    instructions,   \* day 17 only: number of instructions of the parsed program
    readOutcome,    \* what read_input() does: "ok", "io_error" or "no_arg"
    panics1,        \* solve1 panics on this input
    panics2,        \* solve2 panics on this input
    aoctime,        \* the AOCTIME environment variable
    pc,             \* position inside main/run
    stdout,         \* what has been written to standard output, in order
    calls1,         \* number of completed invocations of solve1
    calls2,         \* number of completed invocations of solve2
    iter,           \* loop counter of time_micros
    elapsed_sum,    \* elapsed_sum of the time_micros call in progress
    \* ---- day 6 (src/bin/day6.rs) ----
    map,            \* Input.map: rows of "Empty" / "Obstacle"
    guard_start,    \* Input.guard_start
    d6pc,           \* position inside solve_part_1 / traverse_map
    current_pos,    \* traverse_map: current_pos
    direction,      \* traverse_map: direction
    visited,        \* traverse_map: the cells whose visited flag is set
    answer1,        \* value returned by solve_part_1 (-1 while it has not returned)
    loops,          \* value returned by solve_part_2 (-1 while it has not run)
    \* ---- grid parsers (day 6, day 15, day 25) ----
    pInput,         \* the input text, a sequence of characters
    pDay,           \* the program that reads it: 6, 15 or 25
    pResult,        \* outcome of day 15's parse_input / day 25's solve_part_1
    \* ---- day 3 (src/bin/day3.rs) ----
    d3input,        \* the input text, a sequence of characters
    PART2,          \* the const generic of solve
    d3pos,          \* number of characters consumed by the loop of solve
    state,          \* solve: state (a ParseState with its operand strings)
    enabled,        \* solve: enabled
    sum,            \* solve: sum
    \* ---- day 5 (src/bin/day5.rs) ----
    rules,          \* Input.rules, in input order
    update,         \* the update the loop of solve_part_2 handled last
    sorted,         \* topological_sort's result for it
    d5sum,          \* solve_part_2: sum
    d5done,         \* 1 once solve_part_2 has handled the update, 0 before
    \* ---- day 8 (src/bin/day8.rs) ----
    grid,           \* parse_input's result: rows of "." (empty) or a frequency
    d8answer,       \* value returned by solve_part_1 (-1 while it has not run)
    \* ---- day 20 (src/bin/day20.rs) ----
    walls,          \* Input.walls
    start,          \* Input.start
    end,            \* Input.end
    min_save,       \* solve: min_save
    max_cheat_time, \* solve: max_cheat_time
    overflow_checks,\* the build panics on integer overflow (debug) or wraps (release)
    d20result,      \* outcome of solve
    \* ---- day 16 (src/bin/day16.rs) ----
    walls16,        \* Input.walls
    start16,        \* Input.start
    end16,          \* Input.end
    d16pc,          \* "part1" / "part2": run() is inside solve::<false> / solve::<true>
    min_scores,     \* solve: min_scores, -1 where the map has no entry
    heap,           \* solve: heap, the bag of its entries
    good_seats,     \* solve: good_seats
    min_score_to_end, \* solve: min_score_to_end, -1 for None
    answer16_1,     \* what solve::<false> returned (-1 before)
    answer16_2,     \* what solve::<true> returned (-1 before)
    \* ---- day 18 (src/bin/day18.rs) ----
    bytes_list,     \* parse_input's result
    start_bytes,    \* solve_part_2: start_bytes
    size18,         \* solve_part_2: size
    b18,            \* solve_part_2: b
    e18,            \* solve_part_2: e
    d18result       \* outcome of solve_part_2

runVars == <<program, printProgram, instructions, readOutcome, panics1, panics2,
             aoctime, pc, stdout, calls1, calls2, iter, elapsed_sum>>

d6Vars == <<map, guard_start, d6pc, current_pos, direction, visited, answer1, loops>>

pVars == <<pInput, pDay, pResult>>

d3Vars == <<d3input, PART2, d3pos, state, enabled, sum>>

d5Vars == <<rules, update, sorted, d5sum, d5done>>

d8Vars == <<grid, d8answer>>
d20Vars == <<walls, start, end, min_save, max_cheat_time, overflow_checks, d20result>>
d16Vars == <<walls16, start16, end16, d16pc, min_scores, heap, good_seats,
            min_score_to_end, answer16_1, answer16_2>>
d18Vars == <<bytes_list, start_bytes, size18, b18, e18, d18result>>

vars == <<runVars, d6Vars, pVars, d3Vars, d5Vars, d8Vars, d20Vars, d16Vars, d18Vars>>

(***************************************************************************)
(* Bounds of the model                                                     *)
(***************************************************************************)
MaxElapsed == 1         \* largest elapsed time (microseconds) of one timed call
MaxInstructions == 2    \* largest number of instructions of a day 17 program
GridRows == 4           \* day 6: rows of the generated maps
GridCols == 3           \* day 6: columns of the generated maps
MaxObstacles == 4       \* day 6: largest number of obstacles of a generated map
MaxInputLen == 5        \* parsers: largest length of a generated input text
MaxTokens == 4          \* day 3: largest number of fragments of a generated input
MaxPage == 3            \* day 5: pages are numbered 1..MaxPage
MaxRules == 3           \* day 5: largest number of ordering rules
AntennaRows == 2        \* day 8: rows of the generated grids
AntennaCols == 3        \* day 8: columns of the generated grids
TrackRows == 3          \* day 20: rows inside the border of the generated maps
TrackCols == 3          \* day 20: columns inside the border of the generated maps
MaxWalls == 3           \* day 20: largest number of walls inside the border
MaxMinSave == 1         \* day 20: largest generated min_save
MazeRows == 3           \* day 16: rows inside the border of the generated mazes
MazeCols == 3           \* day 16: columns inside the border of the generated mazes
MaxMazeWalls == 1       \* day 16: largest number of walls inside the border
MaxSize == 3            \* day 18: largest side of the memory space
MaxBytes == 3           \* day 18: largest number of bytes in the list

(***************************************************************************)
(* Program constants                                                       *)
(***************************************************************************)
TIME_ITERATIONS == 100
REAL_HEIGHT == 103

(***************************************************************************)
(* Each specification runs one part of the repository; the variables of    *)
(* the other parts rest at these values.                                   *)
(***************************************************************************)
Pos(x, y) == [x |-> x, y |-> y]

RunIdle ==
    /\ program = "other"
    /\ printProgram = FALSE
    /\ instructions = 0
    /\ readOutcome = "ok"
    /\ panics1 = FALSE
    /\ panics2 = FALSE
    /\ aoctime = "unset"
    /\ pc = "idle"
    /\ stdout = <<>>
    /\ calls1 = 0
    /\ calls2 = 0
    /\ iter = 0
    /\ elapsed_sum = 0

D6Idle ==
    /\ map = <<>>
    /\ guard_start = Pos(0, 0)
    /\ d6pc = "idle"
    /\ current_pos = Pos(0, 0)
    /\ direction = "Up"
    /\ visited = {}
    /\ answer1 = -1
    /\ loops = -1

PIdle ==
    /\ pInput = <<>>
    /\ pDay = 0
    /\ pResult = [t |-> "none"]

D3Idle ==
    /\ d3input = <<>>
    /\ PART2 = FALSE
    /\ d3pos = -1
    /\ state = [s |-> "Start", l_op |-> <<>>, r_op |-> <<>>]
    /\ enabled = TRUE
    /\ sum = 0

D5Idle ==
    /\ rules = <<>>
    /\ update = <<>>
    /\ sorted = <<>>
    /\ d5sum = 0
    /\ d5done = -1

D8Idle ==
    /\ grid = <<>>
    /\ d8answer = -1

D20Idle ==
    /\ walls = <<>>
    /\ start = Pos(0, 0)
    /\ end = Pos(0, 0)
    /\ min_save = 0
    /\ max_cheat_time = 0
    /\ overflow_checks = FALSE
    /\ d20result = [t |-> "idle"]

D16Idle ==
    /\ walls16 = <<>>
    /\ start16 = Pos(0, 0)
    /\ end16 = Pos(0, 0)
    /\ d16pc = "idle"
    /\ min_scores = <<>>
    /\ heap = <<>>
    /\ good_seats = {}
    /\ min_score_to_end = -1
    /\ answer16_1 = -1
    /\ answer16_2 = -1

D18Idle ==
    /\ bytes_list = <<>>
    /\ start_bytes = 0
    /\ size18 = 0
    /\ b18 = 0
    /\ e18 = 0
    /\ d18result = [t |-> "idle"]

(***************************************************************************)
(* Generic helpers                                                         *)
(***************************************************************************)
Range(s) == {s[i] : i \in 1..Len(s)}

SelectKinds(out, kinds) == SelectSeq(out, LAMBDA e : e.kind \in kinds)

RECURSIVE LineCount(_)
LineCount(out) == IF out = <<>> THEN 0 ELSE Head(out).n + LineCount(Tail(out))

(***************************************************************************)
(* SpecRun: src/lib.rs run(), time_micros(), and the main functions        *)
(***************************************************************************)
Programs == {"day14", "day17", "other"}

\* The values the AOCTIME variable can have, as env::var sees them.
AocTimeValues == {"unset", "empty", "nonempty", "not_unicode"}

\* env::var("AOCTIME").is_ok_and(|var| !var.is_empty())
TimingEnabledSetOnly(v) == v # "unset"
TimingEnabled(v) == v = "nonempty"

Line(kind, val) == [kind |-> kind, n |-> 1, val |-> val]
Block(kind, n) == [kind |-> kind, n |-> n, val |-> 0]

\* println!("{solution1}") and println!("{solution2}") of run()
PrintSolutionSwapped(out, part) ==
    Append(out, Line(IF part = 1 THEN "answer2" ELSE "answer1", 0))
PrintSolution(out, part) ==
    Append(out, Line(IF part = 1 THEN "answer1" ELSE "answer2", 0))

\* What a solver itself writes to stdout when it runs to its end: day 14's
\* solve_part_2 prints REAL_HEIGHT rows of the winning layout and an empty line.
SolverOutput(prog, part) ==
    IF prog = "day14" /\ part = 2 THEN <<Block("layout", REAL_HEIGHT + 1)>> ELSE <<>>

RunInit ==
    /\ program \in Programs
    /\ printProgram \in (IF program = "day17" THEN BOOLEAN ELSE {FALSE})
    /\ instructions \in (IF program = "day17" /\ printProgram
                         THEN 1..MaxInstructions ELSE {0})
    /\ readOutcome \in {"ok", "io_error", "no_arg"}
    /\ panics1 \in BOOLEAN
    /\ panics2 \in BOOLEAN
    /\ aoctime \in AocTimeValues
    /\ pc = "main"
    /\ stdout = <<>>
    /\ calls1 = 0
    /\ calls2 = 0
    /\ iter = 0
    /\ elapsed_sum = 0

RunConst == UNCHANGED <<program, printProgram, instructions, readOutcome,
                        panics1, panics2, aoctime>>

\* day17 main: with --print-program the disassembly is printed and run() is
\* never called; every other main calls run() straight away.
Main ==
    /\ pc = "main"
    /\ IF program = "day17" /\ printProgram
       THEN IF readOutcome = "no_arg" THEN pc' = "panicked" /\ stdout' = stdout
            ELSE IF readOutcome = "io_error" THEN pc' = "error" /\ stdout' = stdout
            ELSE IF panics1 THEN pc' = "panicked" /\ stdout' = stdout
            ELSE /\ pc' = "printed_program"
                 /\ stdout' = Append(stdout, Block("disasm", instructions))
       ELSE pc' = "read_input" /\ stdout' = stdout
    /\ UNCHANGED <<calls1, calls2, iter, elapsed_sum>>
    /\ RunConst

\* let input = read_input()?;
ReadInput ==
    /\ pc = "read_input"
    /\ pc' = CASE readOutcome = "ok" -> "solve1"
               [] readOutcome = "io_error" -> "error"
               [] OTHER -> "panicked"
    /\ UNCHANGED <<stdout, calls1, calls2, iter, elapsed_sum>>
    /\ RunConst

\* let solution1 = solve1(&input); println!("{solution1}");
Solve1 ==
    /\ pc = "solve1"
    /\ IF panics1
       THEN pc' = "panicked" /\ UNCHANGED <<stdout, calls1>>
       ELSE /\ calls1' = calls1 + 1
            /\ stdout' = PrintSolution(stdout \o SolverOutput(program, 1), 1)
            /\ pc' = "solve2"
    /\ UNCHANGED <<calls2, iter, elapsed_sum>>
    /\ RunConst

\* let solution2 = solve2(&input); println!("{solution2}");
\* followed by the test of AOCTIME
Solve2 ==
    /\ pc = "solve2"
    /\ IF panics2
       THEN pc' = "panicked" /\ UNCHANGED <<stdout, calls2>>
       ELSE /\ calls2' = calls2 + 1
            /\ stdout' = PrintSolution(stdout \o SolverOutput(program, 2), 2)
            /\ pc' = IF TimingEnabled(aoctime) THEN "time1" ELSE "done"
    /\ UNCHANGED <<calls1, iter, elapsed_sum>>
    /\ RunConst

\* One iteration of the loop of time_micros(|| solve1(&input)).
Time1Iter ==
    /\ pc = "time1"
    /\ iter < TIME_ITERATIONS
    /\ \E e \in 0..MaxElapsed :
          elapsed_sum' = elapsed_sum + e
    /\ iter' = iter + 1
    /\ calls1' = calls1 + 1
    /\ stdout' = stdout \o SolverOutput(program, 1)
    /\ UNCHANGED <<pc, calls2>>
    /\ RunConst

\* elapsed_sum / TIME_ITERATIONS; println!("Part 1 time: {duration1}μs");
Time1Print ==
    /\ pc = "time1"
    /\ iter = TIME_ITERATIONS
    /\ stdout' = Append(stdout, Line("time1", elapsed_sum \div TIME_ITERATIONS))
    /\ iter' = 0
    /\ elapsed_sum' = 0
    /\ pc' = "time2"
    /\ UNCHANGED <<calls1, calls2>>
    /\ RunConst

\* One iteration of the loop of time_micros(|| solve2(&input)).
Time2Iter ==
    /\ pc = "time2"
    /\ iter < TIME_ITERATIONS
    /\ \E e \in 0..MaxElapsed :
          elapsed_sum' = elapsed_sum + e
    /\ iter' = iter + 1
    /\ calls2' = calls2 + 1
    /\ stdout' = stdout \o SolverOutput(program, 2)
    /\ UNCHANGED <<pc, calls1>>
    /\ RunConst

\* elapsed_sum / TIME_ITERATIONS; println!("Part 2 time: {duration2}μs"); Ok(())
Time2Print ==
    /\ pc = "time2"
    /\ iter = TIME_ITERATIONS
    /\ stdout' = Append(stdout, Line("time2", elapsed_sum \div TIME_ITERATIONS))
    /\ iter' = 0
    /\ elapsed_sum' = 0
    /\ pc' = "done"
    /\ UNCHANGED <<calls1, calls2>>
    /\ RunConst

RunNext ==
    \/ Main
    \/ ReadInput
    \/ Solve1
    \/ Solve2
    \/ Time1Iter
    \/ Time1Print
    \/ Time2Iter
    \/ Time2Print


(***************************************************************************)
(* Day 6: src/bin/day6.rs                                                  *)
(***************************************************************************)
\* Direction::rotate_right
rotate_right(d) ==
    CASE d = "Up" -> "Right"
      [] d = "Right" -> "Down"
      [] d = "Down" -> "Left"
      [] d = "Left" -> "Up"

\* Direction::delta
delta(d) ==
    CASE d = "Up" -> Pos(0, -1)
      [] d = "Left" -> Pos(-1, 0)
      [] d = "Right" -> Pos(1, 0)
      [] d = "Down" -> Pos(0, 1)

\* impl Add for Pos2
PosAdd(p, q) == Pos(p.x + q.x, p.y + q.y)

\* The bounds test of the walk loops:
\*   (0..map.len()).contains(&y) && (0..map[0].len()).contains(&x)
InMap(m, p) == p.y >= 0 /\ p.y < Len(m) /\ p.x >= 0 /\ p.x < Len(m[1])

\* map[p.y][p.x]; the index panics when the row is shorter than p.x + 1
CellDefined(m, p) == p.y >= 0 /\ p.y < Len(m) /\ p.x >= 0 /\ p.x < Len(m[p.y + 1])
Cell(m, p) == m[p.y + 1][p.x + 1]

\* One iteration of the loop of traverse_map.
\*   visited[y][x] = true          (panics outside map.len() x map[0].len())
\*   next_pos out of bounds        -> break, return the number of visited cells
\*   map[next_pos] == Obstacle     -> rotate
\*   otherwise                     -> step
TraverseStep ==
    /\ d6pc = "walk"
    /\ IF ~InMap(map, current_pos)
       THEN /\ d6pc' = "panicked"
            /\ UNCHANGED <<current_pos, direction, visited, answer1>>
       ELSE LET vis == visited \cup {current_pos}
                next_pos == PosAdd(current_pos, delta(direction))
            IN  /\ visited' = vis
                /\ IF ~InMap(map, next_pos)
                   THEN /\ d6pc' = "done"
                        /\ answer1' = Cardinality(vis)
                        /\ UNCHANGED <<current_pos, direction>>
                   ELSE IF ~CellDefined(map, next_pos)
                   THEN /\ d6pc' = "panicked"
                        /\ UNCHANGED <<current_pos, direction, answer1>>
                   ELSE IF Cell(map, next_pos) = "Obstacle"
                   THEN /\ direction' = rotate_right(direction)
                        /\ UNCHANGED <<d6pc, current_pos, answer1>>
                   ELSE /\ current_pos' = next_pos
                        /\ UNCHANGED <<d6pc, direction, answer1>>
    /\ UNCHANGED <<map, guard_start, loops>>

\* map[y][x] = Space::Obstacle
PlaceObstacle(m, p) == [m EXCEPT ![p.y + 1][p.x + 1] = "Obstacle"]

\* The loop of traverse_part_2 with obstacle_placed = true, started with the
\* visited bits vis (a set of <<position, direction>>).  Returns its `loops`
\* (1 when a <<position, direction>> repeats, 0 when the guard leaves the map);
\* VisitsBuffer::unwind clears exactly the bits this call set, so the caller's
\* bits are what they were before the call.
RECURSIVE TraverseObstaclePlaced(_, _, _, _)
TraverseObstaclePlaced(m, vis, pos, dir) ==
    IF <<pos, dir>> \in vis THEN 1
    ELSE LET vis2 == vis \cup {<<pos, dir>>}
             next_pos == PosAdd(pos, delta(dir))
         IN  IF ~InMap(m, next_pos) THEN 0
             ELSE IF Cell(m, next_pos) = "Obstacle"
             THEN TraverseObstaclePlaced(m, vis2, pos, rotate_right(dir))
             ELSE TraverseObstaclePlaced(m, vis2, next_pos, dir)

\* visited[next_pos.y][next_pos.x] == 0
NeverVisitedAny(vis, p) == TRUE
NeverVisited(vis, p) == \A d \in {"Up", "Left", "Right", "Down"} : <<p, d>> \notin vis

\* The loop of traverse_part_2 with obstacle_placed = false.
RECURSIVE traverse_part_2(_, _, _, _, _)
traverse_part_2(m, vis, pos, dir, n) ==
    IF <<pos, dir>> \in vis THEN n + 1
    ELSE LET vis2 == vis \cup {<<pos, dir>>}
             next_pos == PosAdd(pos, delta(dir))
         IN  IF ~InMap(m, next_pos) THEN n
             ELSE IF Cell(m, next_pos) = "Obstacle"
             THEN traverse_part_2(m, vis2, pos, rotate_right(dir), n)
             ELSE LET found ==
                         IF NeverVisited(vis2, next_pos)
                         THEN TraverseObstaclePlaced(PlaceObstacle(m, next_pos), vis2,
                                                     pos, rotate_right(dir))
                         ELSE 0
                  IN  traverse_part_2(m, vis2, next_pos, dir, n + found)

\* solve_part_2 after parsing
solve_part_2(m, guard) == traverse_part_2(m, {}, guard, "Up", 0)

\* run() calls solve_part_2 on the input once solve_part_1 has returned.
SolvePart2 ==
    /\ d6pc = "done"
    /\ loops = -1
    /\ loops' = solve_part_2(map, guard_start)
    /\ UNCHANGED <<map, guard_start, d6pc, current_pos, direction, visited, answer1>>

Cells == {Pos(x, y) : x \in 0..(GridCols - 1), y \in 0..(GridRows - 1)}

MapOf(obstacles) ==
    [r \in 1..GridRows |->
        [c \in 1..GridCols |->
            IF Pos(c - 1, r - 1) \in obstacles THEN "Obstacle" ELSE "Empty"]]

\* State after parse_input of a rectangular map and the first lines of
\* traverse_map: the guard stands on an empty cell, facing up.
D6Init ==
    /\ \E obstacles \in {o \in SUBSET Cells : Cardinality(o) <= MaxObstacles} :
          /\ map = MapOf(obstacles)
          /\ guard_start \in Cells \ obstacles
    /\ d6pc = "walk"
    /\ current_pos = guard_start
    /\ direction = "Up"
    /\ visited = {}
    /\ answer1 = -1
    /\ loops = -1

D6Next == TraverseStep \/ SolvePart2

SpecDay6Init == D6Init /\ RunIdle /\ PIdle /\ D3Idle /\ D5Idle /\ D8Idle /\ D20Idle /\ D16Idle /\ D18Idle
SpecDay6Next == D6Next /\ UNCHANGED <<runVars, pVars, d3Vars, d5Vars, d8Vars, d20Vars, d16Vars, d18Vars>>
SpecDay6 == SpecDay6Init /\ [][SpecDay6Next]_vars
\* The walk loop of traverse_map keeps running: nothing else can stop it.
SpecDay6Fair == SpecDay6 /\ WF_vars(TraverseStep /\ UNCHANGED <<runVars, pVars, d3Vars, d5Vars, d8Vars, d20Vars, d16Vars, d18Vars>>)

\* Reference walk: the guard starts at `start` facing up on map m; TRUE when
\* the walk repeats a (row, column, direction) triple, FALSE when it leaves.
RECURSIVE GuardLoops(_, _, _, _)
GuardLoops(m, seen, pos, dir) ==
    IF <<pos, dir>> \in seen THEN TRUE
    ELSE LET next_pos == PosAdd(pos, delta(dir))
         IN  IF ~InMap(m, next_pos) THEN FALSE
             ELSE IF Cell(m, next_pos) = "Obstacle"
             THEN GuardLoops(m, seen \cup {<<pos, dir>>}, pos, rotate_right(dir))
             ELSE GuardLoops(m, seen \cup {<<pos, dir>>}, next_pos, dir)

LoopCells(m, guard) ==
    {c \in Cells : /\ Cell(m, c) = "Empty"
                   /\ c # guard
                   /\ GuardLoops(PlaceObstacle(m, c), {}, guard, "Up")}

\* C4 (as stated): on every rectangular map and for every guard start the walk
\* loop of traverse_map terminates; solve_part_1 returns.
C4_Part1Terminates == <>(d6pc = "done")

\* C7: solve_part_2, which run() calls once solve_part_1 has returned (so the
\* guard's unobstructed walk leaves the map), returns the number of empty cells, other than the guard's start cell, on which a
\* single added obstacle makes the walk from the start (facing up) repeat a
\* (row, column, direction) triple instead of leaving the map.
C7_Part2CountsLoopCells ==
    loops # -1 => loops = Cardinality(LoopCells(map, guard_start))

C7_Witness ==
    /\ loops >= 1
    /\ loops = Cardinality(LoopCells(map, guard_start))


(***************************************************************************)
(* The grid parsers: day6.rs parse_input, day15.rs parse_input,            *)
(* day25.rs parse_input and solve_part_1                                   *)
(***************************************************************************)
NL == "\n"
Panic == [t |-> "panic"]

\* str::lines(): the text split at line feeds; a final line feed starts no line
RECURSIVE SplitLines(_, _, _)
SplitLines(text, cur, acc) ==
    IF text = <<>> THEN (IF cur = <<>> THEN acc ELSE Append(acc, cur))
    ELSE IF Head(text) = NL THEN SplitLines(Tail(text), <<>>, Append(acc, cur))
    ELSE SplitLines(Tail(text), Append(cur, Head(text)), acc)

lines(text) == SplitLines(text, <<>>, <<>>)

\* The positions <<line index, column>> (both from 0) of character c in ls
Occurrences(ls, c) ==
    {<<r, k>> \in (0..(Len(ls) - 1)) \X (0..(MaxInputLen + 1)) :
        k < Len(ls[r + 1]) /\ ls[r + 1][k + 1] = c}

\* The occurrence a scan in reading order meets last
LastOf(occ) ==
    CHOOSE p \in occ : \A q \in occ : q[1] < p[1] \/ (q[1] = p[1] /\ q[2] <= p[2])

\* ---- day 6 ----
\* if c == '#' { Space::Obstacle } else { Space::Empty }
Space6(c) == IF c = "#" THEN "Obstacle" ELSE "Empty"

\* day6.rs parse_input: empty lines are skipped, but `row` counts them
parse_input6(text) ==
    LET ls == lines(text)
        kept == SelectSeq(ls, LAMBDA l : l # <<>>)
        guards == Occurrences(ls, "^")
    IN  IF guards = {} THEN Panic
        ELSE [t |-> "ok",
              map |-> [r \in 1..Len(kept) |->
                          [k \in 1..Len(kept[r]) |-> Space6(kept[r][k])]],
              guard_start |-> Pos(LastOf(guards)[2], LastOf(guards)[1])]

\* solve_part_1 up to the first iteration of the loop of traverse_map
ParseDay6 ==
    /\ pDay = 6
    /\ d6pc = "idle"
    /\ LET r == parse_input6(pInput)
       IN  IF r.t = "panic"
           THEN /\ d6pc' = "parse_panicked"
                /\ UNCHANGED <<map, guard_start, current_pos>>
           ELSE /\ d6pc' = "walk"
                /\ map' = r.map
                /\ guard_start' = r.guard_start
                /\ current_pos' = r.guard_start
    /\ UNCHANGED <<direction, visited, answer1, loops>>
    /\ UNCHANGED pVars

\* ---- day 15 ----
\* the match of parse_map
Space15Lenient(c) ==
    CASE c = "#" -> "Wall"
      [] c = "O" -> "Box"
      [] OTHER -> "Empty"
Space15(c) ==
    CASE c = "." -> "Empty"
      [] c = "#" -> "Wall"
      [] c = "O" -> "Box"
      [] c = "@" -> "Empty"
      [] OTHER -> "panic"

\* the match of parse_moves
Move15(c) ==
    CASE c = "^" -> "Up"
      [] c = "<" -> "Left"
      [] c = ">" -> "Right"
      [] c = "v" -> "Down"
      [] OTHER -> "panic"

RECURSIVE Flatten(_)
Flatten(ls) == IF ls = <<>> THEN <<>> ELSE Head(ls) \o Flatten(Tail(ls))

\* day15.rs parse_input: parse_map takes the lines up to the first empty line
\* (and consumes that line), parse_moves takes every line after it
parse_input15(text) ==
    LET ls == lines(text)
        empties == {i \in 1..Len(ls) : ls[i] = <<>>}
        stop == IF empties = {} THEN Len(ls) + 1
                ELSE CHOOSE i \in empties : \A j \in empties : i <= j
        mapLines == SubSeq(ls, 1, stop - 1)
        moveChars == Flatten(SubSeq(ls, stop + 1, Len(ls)))
        spaces == [r \in 1..Len(mapLines) |->
                      [k \in 1..Len(mapLines[r]) |-> Space15(mapLines[r][k])]]
        robots == Occurrences(mapLines, "@")
        moves == [i \in 1..Len(moveChars) |-> Move15(moveChars[i])]
    IN  IF \E r \in 1..Len(spaces) : "panic" \in Range(spaces[r]) THEN Panic
        ELSE IF robots = {} THEN Panic
        ELSE IF "panic" \in Range(moves) THEN Panic
        ELSE [t |-> "ok", map |-> spaces,
              robot_start |-> Pos(LastOf(robots)[2], LastOf(robots)[1]),
              moves |-> moves]

ParseDay15 ==
    /\ pDay = 15
    /\ pResult = [t |-> "none"]
    /\ pResult' = parse_input15(pInput)
    /\ UNCHANGED <<pInput, pDay>>
    /\ UNCHANGED d6Vars

\* ---- day 25 ----
\* convert_to_heights; the index schematic[row][col] panics on a short row
HeightsDefined(sch) ==
    \A col \in 1..Len(sch[1]) : \A row \in 2..Len(sch) :
        (\A q \in 2..(row - 1) : Len(sch[q]) >= col /\ sch[q][col] = sch[1][1])
            => Len(sch[row]) >= col

convert_to_heights(sch) ==
    [col \in 1..Len(sch[1]) |->
        LET differ == {row \in 2..Len(sch) : sch[row][col] # sch[1][1]}
        IN  IF differ = {} THEN Len(sch)
            ELSE (CHOOSE r \in differ : \A q \in differ : r <= q) - 1]

\* The schematics of parse_input: maximal runs of non-empty lines, read until
\* the text ends or an empty run is met (two empty lines in a row).
RECURSIVE Schematics(_, _, _)
Schematics(ls, cur, acc) ==
    IF ls = <<>> THEN (IF cur = <<>> THEN acc ELSE Append(acc, cur))
    ELSE IF Head(ls) = <<>>
         THEN (IF cur = <<>> THEN acc ELSE Schematics(Tail(ls), <<>>, Append(acc, cur)))
    ELSE Schematics(Tail(ls), Append(cur, [k \in 1..Len(Head(ls)) |-> Head(ls)[k] = "#"]), acc)

\* day25.rs parse_input
parse_input25(text) ==
    LET schs == Schematics(lines(text), <<>>, <<>>)
        isLock(sch) == \A k \in 1..Len(sch[1]) : sch[1][k]
        keyOf(sch) == [k \in 1..Len(sch[1]) |-> Len(sch) - convert_to_heights(sch)[k]]
    IN  IF schs = <<>> THEN Panic
        ELSE IF \E i \in 1..Len(schs) : Len(schs[i]) # Len(schs[1]) THEN Panic
        ELSE IF \E i \in 1..Len(schs) : ~HeightsDefined(schs[i]) THEN Panic
        ELSE [t |-> "ok",
              total_height |-> Len(schs[1]),
              lock_heights |-> [i \in 1..Len(SelectSeq(schs, isLock)) |->
                                   convert_to_heights(SelectSeq(schs, isLock)[i])],
              key_heights |-> [i \in 1..Len(SelectSeq(schs, LAMBDA x : ~isLock(x))) |->
                                  keyOf(SelectSeq(schs, LAMBDA x : ~isLock(x))[i])]]

Min(a, b) == IF a < b THEN a ELSE b

\* lock_matches_key: iter::zip stops at the shorter of the two
lock_matches_key(total_height, lock, key) ==
    \A k \in 1..Min(Len(lock), Len(key)) : lock[k] + key[k] <= total_height

\* day25.rs solve_part_1
solve_part_1_25(text) ==
    LET in == parse_input25(text)
    IN  IF in.t = "panic" THEN Panic
        ELSE [t |-> "answer",
              v |-> Cardinality({<<i, j>> \in (1..Len(in.lock_heights)) \X (1..Len(in.key_heights)) :
                       lock_matches_key(in.total_height, in.lock_heights[i], in.key_heights[j])})]

SolveDay25 ==
    /\ pDay = 25
    /\ pResult = [t |-> "none"]
    /\ pResult' = solve_part_1_25(pInput)
    /\ UNCHANGED <<pInput, pDay>>
    /\ UNCHANGED d6Vars

InputChars == {"#", ".", "^", "@", "X", NL}

RECURSIVE Texts(_)
Texts(n) == IF n = 0 THEN {<<>>}
            ELSE Texts(n - 1) \cup {Append(t, c) : t \in {u \in Texts(n - 1) : Len(u) = n - 1}, c \in InputChars}

PInit ==
    /\ pInput \in Texts(MaxInputLen)
    /\ pDay \in {6, 15, 25}
    /\ pResult = [t |-> "none"]

SpecParseInit == PInit /\ D6Idle /\ RunIdle /\ D3Idle /\ D5Idle /\ D8Idle /\ D20Idle /\ D16Idle /\ D18Idle
SpecParseNext ==
    \/ ParseDay6 /\ UNCHANGED <<runVars, d3Vars, d5Vars, d8Vars, d20Vars, d16Vars, d18Vars>>
    \/ ParseDay15 /\ UNCHANGED <<runVars, d3Vars, d5Vars, d8Vars, d20Vars, d16Vars, d18Vars>>
    \/ SolveDay25 /\ UNCHANGED <<runVars, d3Vars, d5Vars, d8Vars, d20Vars, d16Vars, d18Vars>>
    \/ TraverseStep /\ UNCHANGED <<runVars, pVars, d3Vars, d5Vars, d8Vars, d20Vars, d16Vars, d18Vars>>
SpecParse == SpecParseInit /\ [][SpecParseNext]_vars

\* The characters of each puzzle's input format
Alphabet(day) ==
    CASE day = 6 -> {"#", ".", "^", NL}
      [] day = 15 -> {"#", ".", "O", "@", "^", "<", ">", "v", NL}
      [] day = 25 -> {"#", ".", NL}
      [] OTHER -> {}

HasForeign(text, day) == \E i \in 1..Len(text) : text[i] \notin Alphabet(day)

\* The text with every character outside the day's alphabet replaced by '.'
Dotted(text, day) ==
    [i \in 1..Len(text) |-> IF text[i] \in Alphabet(day) THEN text[i] ELSE "."]

SpecRunInit == RunInit /\ D6Idle /\ PIdle /\ D3Idle /\ D5Idle /\ D8Idle /\ D20Idle /\ D16Idle /\ D18Idle
SpecRunNext == RunNext /\ UNCHANGED <<d6Vars, pVars, d3Vars, d5Vars, d8Vars, d20Vars, d16Vars, d18Vars>>
SpecRun == SpecRunInit /\ [][SpecRunNext]_vars

(***************************************************************************)
(* Day 3: src/bin/day3.rs                                                  *)
(***************************************************************************)
Digits == {"0", "1", "2", "3", "4", "5", "6", "7", "8", "9"}

DigitValue(c) ==
    CASE c = "0" -> 0 [] c = "1" -> 1 [] c = "2" -> 2 [] c = "3" -> 3 [] c = "4" -> 4
      [] c = "5" -> 5 [] c = "6" -> 6 [] c = "7" -> 7 [] c = "8" -> 8 [] c = "9" -> 9

\* str::parse::<i32> of a string of decimal digits
RECURSIVE ParseI32(_)
ParseI32(ds) ==
    IF ds = <<>> THEN 0
    ELSE 10 * ParseI32(SubSeq(ds, 1, Len(ds) - 1)) + DigitValue(ds[Len(ds)])

St(name) == [s |-> name, l_op |-> <<>>, r_op |-> <<>>]

\* The match of the loop of solve: the next value of `state`
NextState(st, c) ==
    CASE st.s = "Start" /\ c = "m" -> St("M")
      [] st.s = "M" /\ c = "u" -> St("Mu")
      [] st.s = "Mu" /\ c = "l" -> St("Mul")
      [] st.s = "Mul" /\ c = "(" -> St("MulParen")
      [] st.s = "MulParen" /\ c \in Digits ->
            [s |-> "MulParenOp", l_op |-> <<c>>, r_op |-> <<>>]
      [] st.s = "MulParenOp" /\ c \in Digits ->
            [s |-> "MulParenOp", l_op |-> Append(st.l_op, c), r_op |-> <<>>]
      [] st.s = "MulParenOp" /\ c = "," ->
            [s |-> "MulParenOpComma", l_op |-> st.l_op, r_op |-> <<>>]
      [] st.s = "MulParenOpComma" /\ c \in Digits ->
            [s |-> "MulParenOpCommaOp", l_op |-> st.l_op, r_op |-> <<c>>]
      [] st.s = "MulParenOpCommaOp" /\ c \in Digits ->
            [s |-> "MulParenOpCommaOp", l_op |-> st.l_op, r_op |-> Append(st.r_op, c)]
      [] st.s = "MulParenOpCommaOp" /\ c = ")" -> St("Start")
      [] st.s = "Start" /\ c = "d" -> St("D")
      [] st.s = "D" /\ c = "o" -> St("Do")
      [] st.s = "Do" /\ c = "(" -> St("DoParen")
      [] st.s = "DoParen" /\ c = ")" -> St("Start")
      [] st.s = "Do" /\ c = "n" -> St("Don")
      [] st.s = "Don" /\ c = "'" -> St("DonApostrophe")
      [] st.s = "DonApostrophe" /\ c = "t" -> St("Dont")
      [] st.s = "Dont" /\ c = "(" -> St("DontParen")
      [] st.s = "DontParen" /\ c = ")" -> St("Start")
      [] OTHER -> St("Start")

\* One iteration of `for c in input.chars()`
SolveStep ==
    /\ d3pos >= 0
    /\ d3pos < Len(d3input)
    /\ LET c == d3input[d3pos + 1]
       IN  /\ state' = NextState(state, c)
           /\ sum' = IF state.s = "MulParenOpCommaOp" /\ c = ")" /\ (enabled \/ ~PART2)
                     THEN sum + ParseI32(state.l_op) * ParseI32(state.r_op)
                     ELSE sum
           /\ enabled' = IF state.s = "DoParen" /\ c = ")" THEN TRUE
                         ELSE IF state.s = "DontParen" /\ c = ")" THEN FALSE
                         ELSE enabled
    /\ d3pos' = d3pos + 1
    /\ UNCHANGED <<d3input, PART2>>

\* The fragments the generated inputs are put together from
Fragments ==
    { <<"m">>, <<"d">>, <<"x">>, <<"4">>, <<",">>, <<")">>,
      <<"m", "u", "l", "(">>,
      <<"m", "u", "l", "(", "2", ",", "3", ")">>,
      <<"m", "u", "l", "(", "1", "2", ",", "3">>,
      <<"d", "o", "(", ")">>,
      <<"d", "o", "n", "'", "t", "(", ")">> }

RECURSIVE FragmentTexts(_)
FragmentTexts(n) ==
    IF n = 0 THEN {<<>>}
    ELSE LET shorter == FragmentTexts(n - 1)
         IN  shorter \cup {t \o f : t \in shorter, f \in Fragments}

D3Init ==
    /\ d3input \in FragmentTexts(MaxTokens)
    /\ PART2 \in BOOLEAN
    /\ d3pos = 0
    /\ state = St("Start")
    /\ enabled = TRUE
    /\ sum = 0

SpecDay3Init == D3Init /\ RunIdle /\ D6Idle /\ PIdle /\ D5Idle /\ D8Idle /\ D20Idle /\ D16Idle /\ D18Idle
SpecDay3Next == SolveStep /\ UNCHANGED <<runVars, d6Vars, pVars, d5Vars, d8Vars, d20Vars, d16Vars, d18Vars>>
SpecDay3 == SpecDay3Init /\ [][SpecDay3Next]_vars

\* ---- what a regular-expression scan finds ----
IsAt(text, i, word) ==
    /\ i + Len(word) - 1 <= Len(text)
    /\ SubSeq(text, i, i + Len(word) - 1) = word

\* The length of the run of digits of text that starts at index i
RECURSIVE DigitRun(_, _)
DigitRun(text, i) ==
    IF i <= Len(text) /\ text[i] \in Digits THEN 1 + DigitRun(text, i + 1) ELSE 0

\* A match of  mul\((\d+),(\d+)\)  that starts at index i
MulMatch(text, i) ==
    LET n1 == DigitRun(text, i + 4)
        n2 == DigitRun(text, i + 4 + n1 + 1)
        last == i + 4 + n1 + 1 + n2
    IN  IF /\ IsAt(text, i, <<"m", "u", "l", "(">>)
           /\ n1 >= 1
           /\ IsAt(text, i + 4 + n1, <<",">>)
           /\ n2 >= 1
           /\ IsAt(text, last, <<")">>)
        THEN [ok |-> TRUE,
              product |-> ParseI32(SubSeq(text, i + 4, i + 3 + n1))
                          * ParseI32(SubSeq(text, i + 5 + n1, last - 1)),
              next |-> last + 1]
        ELSE [ok |-> FALSE, product |-> 0, next |-> i + 1]

\* Sum of l*r over the occurrences of mul(l,r) from index i on
RECURSIVE RegexSum(_, _)
RegexSum(text, i) ==
    IF i > Len(text) THEN 0
    ELSE MulMatch(text, i).product + RegexSum(text, MulMatch(text, i).next)

\* The same scan with every do() and don't() occurrence switching the flag
RECURSIVE RegexSumEnabled(_, _, _)
RegexSumEnabled(text, i, on) ==
    IF i > Len(text) THEN 0
    ELSE IF IsAt(text, i, <<"d", "o", "(", ")">>) THEN RegexSumEnabled(text, i + 4, TRUE)
    ELSE IF IsAt(text, i, <<"d", "o", "n", "'", "t", "(", ")">>)
         THEN RegexSumEnabled(text, i + 7, FALSE)
    ELSE (IF on THEN MulMatch(text, i).product ELSE 0)
         + RegexSumEnabled(text, MulMatch(text, i).next, on)

D3Returned == d3pos >= 0 /\ d3pos = Len(d3input)

\* C5: for every input, solve::<false> returns what a regex scan returns: the
\* sum of l*r over every occurrence of mul(<digits>,<digits>) in the input.
C5_Part1EqualsRegexScan ==
    (D3Returned /\ ~PART2) => sum = RegexSum(d3input, 1)

\* C6: for every input, solve::<true> adds the product of a complete mul(a,b)
\* exactly when the latest complete do() / don't() before it is do() (or there
\* is none): every do() and don't() substring switches the flag, whatever
\* comes before it.
C6_Part2FollowsEveryDoAndDont ==
    (D3Returned /\ PART2) => sum = RegexSumEnabled(d3input, 1, TRUE)

(***************************************************************************)
(* Day 5: src/bin/day5.rs                                                  *)
(***************************************************************************)
Pages == 1..MaxPage

\* make_rules_graph: graph[p] lists, in rule order, the pages that must come
\* after p
make_rules_graph(rs) ==
    [p \in Pages |->
        LET mine == SelectSeq(rs, LAMBDA r : r[1] = p)
        IN  [i \in 1..Len(mine) |-> mine[i][2]]]

\* is_ordered: scanning the update, no page that must come after the current
\* page has been seen already
is_ordered(upd, graph) ==
    \A j \in 1..Len(upd) :
        \A e \in Range(graph[upd[j]]) : \A i \in 1..(j - 1) : upd[i] # e

Reverse(q) == [i \in 1..Len(q) |-> q[Len(q) + 1 - i]]

\* topological_sort_visit: acc is [visited, sorted]; VisitEdges is the loop
\* over the edges of a page
RECURSIVE topological_sort_visit(_, _, _, _)
RECURSIVE VisitEdges(_, _, _, _)
VisitEdges(graph, edges, update_set, acc) ==
    IF edges = <<>> THEN acc
    ELSE LET edge == Head(edges)
             acc2 == IF edge \notin acc.visited /\ edge \in update_set
                     THEN topological_sort_visit(graph, edge, update_set, acc)
                     ELSE acc
         IN  VisitEdges(graph, Tail(edges), update_set, acc2)

topological_sort_visit(graph, page, update_set, acc) ==
    LET entered == [visited |-> acc.visited \cup {page}, sorted |-> acc.sorted]
        after == VisitEdges(graph, graph[page], update_set, entered)
    IN  [visited |-> after.visited, sorted |-> Append(after.sorted, page)]

\* the loop of topological_sort over the pages of the update
RECURSIVE VisitPages(_, _, _, _)
VisitPages(graph, pages, update_set, acc) ==
    IF pages = <<>> THEN acc
    ELSE VisitPages(graph, Tail(pages), update_set,
                    IF Head(pages) \notin acc.visited
                    THEN topological_sort_visit(graph, Head(pages), update_set, acc)
                    ELSE acc)

topological_sort_unreversed(graph, upd) ==
    VisitPages(graph, upd, Range(upd), [visited |-> {}, sorted |-> <<>>]).sorted
topological_sort(graph, upd) ==
    Reverse(VisitPages(graph, upd, Range(upd), [visited |-> {}, sorted |-> <<>>]).sorted)

\* sorted[sorted.len() / 2]
Middle(q) == q[(Len(q) \div 2) + 1]

\* The loop of solve_part_2 on an input whose update list holds the one
\* update upd
HandleUpdate(upd) ==
    /\ d5done = 0
    /\ LET srt == topological_sort(make_rules_graph(rules), upd)
       IN  /\ sorted' = srt
           /\ d5sum' = IF srt # upd THEN d5sum + Middle(srt) ELSE d5sum
    /\ update' = upd
    /\ d5done' = d5done + 1
    /\ UNCHANGED rules

RECURSIVE SeqsUpTo(_, _)
SeqsUpTo(S, n) ==
    IF n = 0 THEN {<<>>}
    ELSE LET shorter == SeqsUpTo(S, n - 1)
         IN  shorter \cup {Append(q, x) : q \in shorter, x \in S}

NoRepeat(q) == \A i, j \in 1..Len(q) : i # j => q[i] # q[j]

\* The rule lists and updates of the generated inputs: rules a|b with a # b,
\* none given twice; updates are non-empty and name no page twice
RuleLists == {q \in SeqsUpTo({<<a, b>> \in Pages \X Pages : a # b}, MaxRules) : NoRepeat(q)}
Updates == {q \in SeqsUpTo(Pages, MaxPage) : q # <<>> /\ NoRepeat(q)}

D5Init ==
    /\ rules \in RuleLists
    /\ update = <<>>
    /\ sorted = <<>>
    /\ d5sum = 0
    /\ d5done = 0

D5Next == \E upd \in Updates : HandleUpdate(upd)

SpecDay5Init == D5Init /\ RunIdle /\ D6Idle /\ PIdle /\ D3Idle /\ D8Idle /\ D20Idle /\ D16Idle /\ D18Idle
SpecDay5Next == D5Next /\ UNCHANGED <<runVars, d6Vars, pVars, d3Vars, d8Vars, d20Vars, d16Vars, d18Vars>>
SpecDay5 == SpecDay5Init /\ [][SpecDay5Next]_vars

\* Some rule a|b has both pages in the update with b before a
IncorrectlyOrdered(upd, rs) ==
    \E k \in 1..Len(rs) : \E i, j \in 1..Len(upd) :
        i < j /\ upd[i] = rs[k][2] /\ upd[j] = rs[k][1]

\* The rules decide the order of every two pages of the update, one way only
DecidesEveryPair(upd, rs) ==
    \A i, j \in 1..Len(upd) : i < j =>
        (<<upd[i], upd[j]>> \in Range(rs)) # (<<upd[j], upd[i]>> \in Range(rs))

\* No cycle among the rules between pages of the update
RECURSIVE Reach(_, _, _)
Reach(from, edges, n) ==
    IF n = 0 THEN from
    ELSE Reach(from \cup {e[2] : e \in {f \in edges : f[1] \in from}}, edges, n - 1)

Acyclic(upd, rs) ==
    LET edges == {e \in Range(rs) : e[1] \in Range(upd) /\ e[2] \in Range(upd)}
    IN  \A p \in Range(upd) :
           p \notin Reach({e[2] : e \in {f \in edges : f[1] = p}}, edges, Len(upd))

Frequencies == {"a", "b"}

\* The test of the innermost loop body of solve_part_1 for the position
\* (i, j) and the grid cell (ii, jj); rows and columns count from 0
PairSkipped(di, dj) == di = 0 \/ dj = 0

IsAntinodeVia(g, i, j, ii, jj) ==
    LET di == ii - i
        dj == jj - j
        iii == i + 2 * di
        jjj == j + 2 * dj
    IN  /\ g[ii + 1][jj + 1] # "."
        /\ ~PairSkipped(di, dj)
        /\ iii >= 0 /\ iii < Len(g)
        /\ jjj >= 0 /\ jjj < Len(g[iii + 1])
        /\ g[iii + 1][jjj + 1] = g[ii + 1][jj + 1]

\* solve_part_1 after parsing: the size of the set `positions`
solve_part_1_8(g) ==
    Cardinality({<<i, j>> \in (0..(Len(g) - 1)) \X (0..(AntennaCols - 1)) :
        /\ j < Len(g[i + 1])
        /\ \E ii \in 0..(Len(g) - 1) : \E jj \in 0..(Len(g[ii + 1]) - 1) :
              IsAntinodeVia(g, i, j, ii, jj)})

SolveDay8 ==
    /\ d8answer = -1
    /\ grid # <<>>
    /\ d8answer' = solve_part_1_8(grid)
    /\ UNCHANGED grid

D8Init ==
    /\ grid \in [1..AntennaRows -> [1..AntennaCols -> {"."} \cup Frequencies]]
    /\ d8answer = -1

SpecDay8Init == D8Init /\ RunIdle /\ D6Idle /\ PIdle /\ D3Idle /\ D5Idle /\ D20Idle /\ D16Idle /\ D18Idle
SpecDay8Next == SolveDay8 /\ UNCHANGED <<runVars, d6Vars, pVars, d3Vars, d5Vars, d20Vars, d16Vars, d18Vars>>
SpecDay8 == SpecDay8Init /\ [][SpecDay8Next]_vars

GridCells(g) == {<<i, j>> \in (1..Len(g)) \X (1..AntennaCols) : j <= Len(g[i])}

\* The in-bounds positions p = 2*a1 - a2 for two distinct antennas a1, a2 of
\* one frequency
Antinodes(g) ==
    {p \in GridCells(g) :
        \E a1, a2 \in GridCells(g) :
            /\ a1 # a2
            /\ g[a1[1]][a1[2]] # "."
            /\ g[a1[1]][a1[2]] = g[a2[1]][a2[2]]
            /\ p[1] = 2 * a1[1] - a2[1]
            /\ p[2] = 2 * a1[2] - a2[2]}

\* C9: solve_part_1 returns the number of distinct in-bounds positions
\* p = 2*a1 - a2 over all pairs of distinct antennas a1, a2 of one frequency,
\* whatever their relative placement.
C9_CountsEveryAntinode ==
    d8answer # -1 => d8answer = Cardinality(Antinodes(grid))

(***************************************************************************)
(* Day 20: src/bin/day20.rs                                                *)
(***************************************************************************)
P1_CHEAT_DISTANCE == 2
P2_CHEAT_DISTANCE == 20

\* A u32 as two 16-bit limbs, its value being hi * 65536 + lo
Limb == 65536
U32(n) == [hi |-> n \div Limb, lo |-> n % Limb]
U32Lt(a, b) == a.hi < b.hi \/ (a.hi = b.hi /\ a.lo < b.lo)
U32Le(a, b) == ~U32Lt(b, a)

\* u32 subtraction in a build that wraps on overflow
WrappingSub(a, b) ==
    LET borrow == IF a.lo < b.lo THEN 1 ELSE 0
    IN  [hi |-> (a.hi - b.hi - borrow + 2 * Limb) % Limb,
         lo |-> (a.lo - b.lo + Limb) % Limb]

DELTAS == <<Pos(-1, 0), Pos(0, -1), Pos(1, 0), Pos(0, 1)>>

\* walls[pos], Grid's Index<Pos2<i32>>
Wall(w, p) == w[p.y + 1][p.x + 1]

\* The neighbours of pos that the loops `for delta in DELTAS` push, in order
RECURSIVE PushNeighbours(_, _, _, _, _)
PushNeighbours(w, pos, distance, k, qv) ==
    IF k > Len(DELTAS) THEN qv
    ELSE LET new_pos == PosAdd(pos, DELTAS[k])
         IN  IF Wall(w, new_pos) \/ new_pos \in qv.visited
             THEN PushNeighbours(w, pos, distance, k + 1, qv)
             ELSE PushNeighbours(w, pos, distance, k + 1,
                     [queue |-> Append(qv.queue, [pos |-> new_pos, distance |-> distance + 1]),
                      visited |-> qv.visited \cup {new_pos}])

\* The loop of build_distances_from_end; `distances` starts as all zeroes
RECURSIVE BuildLoop(_, _, _, _)
BuildLoop(w, queue, vis, distances) ==
    IF queue = <<>> THEN distances
    ELSE LET entry == Head(queue)
             qv == PushNeighbours(w, entry.pos, entry.distance, 1,
                                  [queue |-> Tail(queue), visited |-> vis])
         IN  BuildLoop(w, qv.queue, qv.visited,
                       [distances EXCEPT ![entry.pos] = entry.distance])

AllCells(w) == {Pos(x, y) : x \in 0..(Len(w[1]) - 1), y \in 0..(Len(w) - 1)}

build_distances_from_end(w, e) ==
    BuildLoop(w, <<[pos |-> e, distance |-> 0]>>, {e}, [p \in AllCells(w) |-> 0])

\* The loop that traverses the diamond of the cells cheat_distance away from
\* pos: the number of times it executes `count += 1`
RECURSIVE DiamondLoop(_, _, _, _, _, _, _, _, _)
DiamondLoop(w, dfe, pos, distance, cheat_distance, max_path_len, cdx, cdy, dd) ==
    LET cheat_pos == PosAdd(pos, Pos(cdx, cdy))
        hit == /\ cheat_pos.x >= 0 /\ cheat_pos.x < Len(w[1])
               /\ cheat_pos.y >= 0 /\ cheat_pos.y < Len(w)
               /\ ~Wall(w, cheat_pos)
               /\ U32Le(U32(distance + cheat_distance + dfe[cheat_pos]), max_path_len)
        cdx2 == cdx + dd.x
        cdy2 == cdy + dd.y
        dd2 == IF cdx2 = 0 \/ cdy2 = 0 THEN Pos(-dd.y, dd.x) ELSE dd
    IN  (IF hit THEN 1 ELSE 0)
        + (IF cdx2 = -cheat_distance THEN 0
           ELSE DiamondLoop(w, dfe, pos, distance, cheat_distance, max_path_len,
                            cdx2, cdy2, dd2))

\* for cheat_distance in 2..=max_cheat_time, with its break
RECURSIVE CheatLoop(_, _, _, _, _, _, _)
CheatLoop(w, dfe, pos, distance, cheat_distance, max_time, max_path_len) ==
    IF cheat_distance > max_time \/ U32Lt(max_path_len, U32(distance + cheat_distance))
    THEN 0
    ELSE DiamondLoop(w, dfe, pos, distance, cheat_distance, max_path_len,
                     -cheat_distance, 0, Pos(1, -1))
         + CheatLoop(w, dfe, pos, distance, cheat_distance + 1, max_time, max_path_len)

\* The loop of count_possible_cheats; limit is the value of max_path_len - 2
RECURSIVE CountLoop(_, _, _, _, _, _, _)
CountLoop(w, dfe, queue, vis, max_time, max_path_len, limit) ==
    IF queue = <<>> THEN 0
    ELSE LET entry == Head(queue)
         IN  IF U32Lt(limit, U32(entry.distance)) THEN 0
             ELSE LET qv == PushNeighbours(w, entry.pos, entry.distance, 1,
                                           [queue |-> Tail(queue), visited |-> vis])
                  IN  CheatLoop(w, dfe, entry.pos, entry.distance, 2, max_time, max_path_len)
                      + CountLoop(w, dfe, qv.queue, qv.visited, max_time, max_path_len, limit)

\* solve, after parsing: the two u32 subtractions (distances[start] - min_save
\* and max_path_len - 2) panic on overflow in a build with overflow checks and
\* wrap otherwise
solve20(w, s, e, save, max_time, checks) ==
    LET dfe == build_distances_from_end(w, e)
        max_path_len == WrappingSub(U32(dfe[s]), U32(save))
        limit == WrappingSub(max_path_len, U32(2))
    IN  IF checks /\ (dfe[s] < save \/ U32Lt(max_path_len, U32(2))) THEN Panic
        ELSE [t |-> "answer",
              v |-> CountLoop(w, dfe, <<[pos |-> s, distance |-> 0]>>, {s},
                              max_time, max_path_len, limit)]

SolveDay20 ==
    /\ d20result = [t |-> "none"]
    /\ d20result' = solve20(walls, start, end, min_save, max_cheat_time, overflow_checks)
    /\ UNCHANGED <<walls, start, end, min_save, max_cheat_time, overflow_checks>>

Inner == {Pos(x, y) : x \in 1..TrackCols, y \in 1..TrackRows}

\* A map whose outermost rows and columns are walls
TrackOf(inner_walls) ==
    [r \in 1..(TrackRows + 2) |->
        [c \in 1..(TrackCols + 2) |->
            Pos(c - 1, r - 1) \notin Inner \/ Pos(c - 1, r - 1) \in inner_walls]]

\* The cells reachable from `from` over cells that are no wall
RECURSIVE Flood(_, _)
Flood(w, from) ==
    LET more == from \cup {q \in AllCells(w) :
                    ~Wall(w, q) /\ \E p \in from : \E k \in 1..4 : q = PosAdd(p, DELTAS[k])}
    IN  IF more = from THEN from ELSE Flood(w, more)

\* State after parse_input: a walled-in map with the distinct cells 'S' and
\* 'E', on which the end can be reached from the start
D20Init ==
    /\ \E inner_walls \in {o \in SUBSET Inner : Cardinality(o) <= MaxWalls} :
          /\ walls = TrackOf(inner_walls)
          /\ start \in Inner \ inner_walls
          /\ end \in (Inner \ inner_walls) \ {start}
    /\ end \in Flood(walls, {start})
    /\ min_save \in 0..MaxMinSave
    /\ max_cheat_time \in {P1_CHEAT_DISTANCE, P2_CHEAT_DISTANCE}
    /\ overflow_checks \in BOOLEAN
    /\ d20result = [t |-> "none"]

SpecDay20Init == D20Init /\ RunIdle /\ D6Idle /\ PIdle /\ D3Idle /\ D5Idle /\ D8Idle /\ D16Idle /\ D18Idle
SpecDay20Next == SolveDay20 /\ UNCHANGED <<runVars, d6Vars, pVars, d3Vars, d5Vars, d8Vars, d16Vars, d18Vars>>
SpecDay20 == SpecDay20Init /\ [][SpecDay20Next]_vars

\* ---- the shortest wall-free path length, from the definition ----
RECURSIVE PathLen(_, _, _, _)
PathLen(w, frontier, target, n) ==
    IF target \in frontier THEN n
    ELSE LET more == frontier \cup {q \in AllCells(w) :
                    ~Wall(w, q) /\ \E p \in frontier : \E k \in 1..4 : q = PosAdd(p, DELTAS[k])}
         IN  IF more = frontier THEN -1 ELSE PathLen(w, more, target, n + 1)

\* dist(a, b), -1 when there is no path
Dist(w, a, b) == PathLen(w, {a}, b, 0)

Abs(n) == IF n < 0 THEN -n ELSE n
Manhattan(p, q) == Abs(p.x - q.x) + Abs(p.y - q.y)

CheatPairs(w, s0, e0, save, max_time) ==
    {pair \in {q \in AllCells(w) : ~Wall(w, q)} \X {q \in AllCells(w) : ~Wall(w, q)} :
        LET m == Manhattan(pair[1], pair[2])
        IN  /\ m >= 2 /\ m <= max_time
            /\ Dist(w, s0, pair[1]) # -1
            /\ Dist(w, pair[2], e0) # -1
            /\ Dist(w, s0, pair[1]) + m + Dist(w, pair[2], e0) <= Dist(w, s0, e0) - save}

\* C10: solve returns the number of ordered pairs (s, e) of non-wall cells
\* with Manhattan distance m, 2 <= m <= max_cheat_time, such that
\* dist(start, s) + m + dist(e, end) <= dist(start, end) - min_save.
C10_CountsCheatPairs ==
    d20result.t \notin {"none", "idle"} =>
        d20result = [t |-> "answer",
                     v |-> Cardinality(CheatPairs(walls, start, end, min_save, max_cheat_time))]

\* The same on the maps of the puzzle: every cell that is no wall can reach
\* the end, and min_save leaves a path length of at least 2
D20_OnTracks ==
    (/\ d20result.t \notin {"none", "idle"}
     /\ \A q \in AllCells(walls) : ~Wall(walls, q) => Dist(walls, q, end) # -1
     /\ Dist(walls, start, end) - min_save >= 2) =>
        d20result = [t |-> "answer",
                     v |-> Cardinality(CheatPairs(walls, start, end, min_save, max_cheat_time))]

(***************************************************************************)
(* Day 16: src/bin/day16.rs                                                *)
(***************************************************************************)
Directions16 == {"North", "South", "East", "West"}

rotate_left16(d) ==
    CASE d = "North" -> "West" [] d = "West" -> "South"
      [] d = "South" -> "East" [] d = "East" -> "North"

rotate_right16(d) ==
    CASE d = "North" -> "East" [] d = "East" -> "South"
      [] d = "South" -> "West" [] d = "West" -> "North"

delta16(d) ==
    CASE d = "North" -> Pos(0, -1) [] d = "South" -> Pos(0, 1)
      [] d = "East" -> Pos(1, 0) [] d = "West" -> Pos(-1, 0)

MazeCells(w) == {Pos(x, y) : x \in 0..(Len(w[1]) - 1), y \in 0..(Len(w) - 1)}
MazeStates(w) == MazeCells(w) \X Directions16

\* The state of solve before its loop: nothing in min_scores, the start entry
\* in the heap, start and end in good_seats
SolveEntered(part) ==
    /\ d16pc' = part
    /\ min_scores' = [k \in MazeStates(walls16) |-> -1]
    /\ heap' = SetToBag({[score |-> 0, pos |-> start16, direction |-> "East", path |-> <<>>]})
    /\ good_seats' = {start16, end16}
    /\ min_score_to_end' = -1

\* heap.pop(): an entry that no other entry of the heap precedes in the order
\* of impl Ord for HeapEntry (lowest score first); which of several entries
\* with the lowest score comes out is left open
Poppable(entry) ==
    /\ BagIn(entry, heap)
    /\ \A other \in BagToSet(heap) : entry.score <= other.score

IsNoneOr(key, bound) == min_scores[key] = -1 \/ min_scores[key] >= bound

RangeOf(path) == {path[i] : i \in 1..Len(path)}

\* Pushed with a turn priced like a step
PushedCheapTurn(entry) ==
    LET pos == entry.pos
        facing == entry.direction
        path == Append(entry.path, pos)
        forward_pos == PosAdd(pos, delta16(facing))
        forward == IF ~Wall(walls16, forward_pos)
                      /\ IsNoneOr(<<forward_pos, facing>>, entry.score + 1)
                   THEN SetToBag({[score |-> entry.score + 1, pos |-> forward_pos,
                                   direction |-> facing, path |-> path]})
                   ELSE EmptyBag
        rotated(rotate_direction) ==
            IF IsNoneOr(<<pos, rotate_direction>>, entry.score + 1)
            THEN SetToBag({[score |-> entry.score + 1, pos |-> pos,
                            direction |-> rotate_direction, path |-> path]})
            ELSE EmptyBag
    IN  forward (+) rotated(rotate_left16(facing)) (+) rotated(rotate_right16(facing))

\* The entries one loop iteration pushes for a popped entry that is expanded
Pushed(entry) ==
    LET pos == entry.pos
        facing == entry.direction
        path == Append(entry.path, pos)
        forward_pos == PosAdd(pos, delta16(facing))
        forward == IF ~Wall(walls16, forward_pos)
                      /\ IsNoneOr(<<forward_pos, facing>>, entry.score + 1)
                   THEN SetToBag({[score |-> entry.score + 1, pos |-> forward_pos,
                                   direction |-> facing, path |-> path]})
                   ELSE EmptyBag
        rotated(rotate_direction) ==
            IF IsNoneOr(<<pos, rotate_direction>>, entry.score + 1000)
            THEN SetToBag({[score |-> entry.score + 1000, pos |-> pos,
                            direction |-> rotate_direction, path |-> path]})
            ELSE EmptyBag
    IN  forward (+) rotated(rotate_left16(facing)) (+) rotated(rotate_right16(facing))

\* Pruned with a recorded equal score pruning as well
PrunedOnTie(entry) ==
    /\ min_scores[<<entry.pos, entry.direction>>] # -1
    /\ min_scores[<<entry.pos, entry.direction>>] <= entry.score

\* Pruning test of the loop: a lower score is recorded for the popped state
Pruned(entry) ==
    /\ min_scores[<<entry.pos, entry.direction>>] # -1
    /\ min_scores[<<entry.pos, entry.direction>>] < entry.score

\* One iteration of `while let Some(..) = heap.pop()`
PopEntry ==
    /\ d16pc \in {"part1", "part2"}
    /\ \E entry \in BagToSet(heap) :
          /\ Poppable(entry)
          /\ LET rest == heap (-) SetToBag({entry})
             IN  IF entry.pos = end16
                 THEN /\ min_score_to_end' =
                            IF min_score_to_end = -1 THEN entry.score ELSE min_score_to_end
                      /\ good_seats' =
                            IF min_score_to_end = -1 \/ min_score_to_end = entry.score
                            THEN good_seats \cup RangeOf(entry.path)
                            ELSE good_seats
                      /\ heap' = rest
                      /\ UNCHANGED min_scores
                 ELSE IF Pruned(entry)
                 THEN /\ heap' = rest
                      /\ UNCHANGED <<min_scores, good_seats, min_score_to_end>>
                 ELSE /\ min_scores' =
                            [min_scores EXCEPT ![<<entry.pos, entry.direction>>] = entry.score]
                      /\ heap' = rest (+) Pushed(entry)
                      /\ UNCHANGED <<good_seats, min_score_to_end>>
    /\ UNCHANGED <<walls16, start16, end16, d16pc, answer16_1, answer16_2>>

\* The heap is empty: solve::<false> returns min_score_to_end or panics on None,
\* and run() goes on to call solve::<true>
ReturnPart1 ==
    /\ d16pc = "part1"
    /\ heap = EmptyBag
    /\ IF min_score_to_end = -1
       THEN /\ d16pc' = "panicked"
            /\ UNCHANGED <<min_scores, heap, good_seats, min_score_to_end, answer16_1>>
       ELSE /\ answer16_1' = min_score_to_end
            /\ SolveEntered("part2")
    /\ UNCHANGED <<walls16, start16, end16, answer16_2>>

\* The heap is empty: solve::<true> returns good_seats.len()
ReturnPart2 ==
    /\ d16pc = "part2"
    /\ heap = EmptyBag
    /\ answer16_2' = Cardinality(good_seats)
    /\ d16pc' = "done"
    /\ UNCHANGED <<walls16, start16, end16, min_scores, heap, good_seats,
                   min_score_to_end, answer16_1>>

MazeInner == {Pos(x, y) : x \in 1..MazeCols, y \in 1..MazeRows}

\* A maze whose outermost rows and columns are walls
MazeOf(inner_walls) ==
    [r \in 1..(MazeRows + 2) |->
        [c \in 1..(MazeCols + 2) |->
            Pos(c - 1, r - 1) \notin MazeInner \/ Pos(c - 1, r - 1) \in inner_walls]]

\* State when run() has called solve::<false> and parse_input has returned: a
\* walled-in maze with the distinct tiles 'S' and 'E'
D16Init ==
    /\ \E inner_walls \in {o \in SUBSET MazeInner : Cardinality(o) <= MaxMazeWalls} :
          /\ walls16 = MazeOf(inner_walls)
          /\ start16 \in MazeInner \ inner_walls
          /\ end16 \in (MazeInner \ inner_walls) \ {start16}
    /\ d16pc = "part1"
    /\ min_scores = [k \in MazeStates(walls16) |-> -1]
    /\ heap = SetToBag({[score |-> 0, pos |-> start16, direction |-> "East", path |-> <<>>]})
    /\ good_seats = {start16, end16}
    /\ min_score_to_end = -1
    /\ answer16_1 = -1
    /\ answer16_2 = -1

D16Next == PopEntry \/ ReturnPart1 \/ ReturnPart2

SpecDay16Init == D16Init /\ RunIdle /\ D6Idle /\ PIdle /\ D3Idle /\ D5Idle /\ D8Idle /\ D20Idle /\ D18Idle
SpecDay16Next == D16Next /\ UNCHANGED <<runVars, d6Vars, pVars, d3Vars, d5Vars, d8Vars, d20Vars, d18Vars>>
SpecDay16 == SpecDay16Init /\ [][SpecDay16Next]_vars

\* ---- the cheapest walks, from the definition ----
Unreached == 1000 * 1000

Least(S) == IF S = {} THEN Unreached ELSE CHOOSE n \in S : \A k \in S : n <= k

Open16(w, p) == p \in MazeCells(w) /\ ~Wall(w, p)

\* The moves of a walk: a step forward onto a tile that is no wall costs 1, a
\* turn by 90 degrees costs 1000.  Step(w, st) is where a step leads from the
\* state st = <<tile, direction>>, StepBack(w, st) where a step came from.
CanStep(w, from, to) == Open16(w, from) /\ Open16(w, to)
Step(w, st) == <<PosAdd(st[1], delta16(st[2])), st[2]>>
StepBack(w, st) == <<PosAdd(st[1], delta16(rotate_left16(rotate_left16(st[2])))), st[2]>>
Turns(st) == {<<st[1], rotate_left16(st[2])>>, <<st[1], rotate_right16(st[2])>>}

\* Cost of the cheapest walk from the start state to each state
RECURSIVE CostsFrom(_, _)
CostsFrom(w, cost) ==
    LET better == [st \in MazeStates(w) |->
            IF ~Open16(w, st[1]) THEN Unreached
            ELSE Least({cost[st]}
                       \cup {cost[t] + 1000 : t \in Turns(st)}
                       \cup (IF CanStep(w, StepBack(w, st)[1], st[1])
                             THEN {cost[StepBack(w, st)] + 1} ELSE {}))]
    IN  IF better = cost THEN cost ELSE CostsFrom(w, better)

\* Cost of the cheapest walk from each state to the target tile
RECURSIVE CostsTo(_, _)
CostsTo(w, cost) ==
    LET better == [st \in MazeStates(w) |->
            IF ~Open16(w, st[1]) THEN Unreached
            ELSE Least({cost[st]}
                       \cup {cost[t] + 1000 : t \in Turns(st)}
                       \cup (IF CanStep(w, st[1], Step(w, st)[1])
                             THEN {cost[Step(w, st)] + 1} ELSE {}))]
    IN  IF better = cost THEN cost ELSE CostsTo(w, better)

FromStart(w, s0) ==
    CostsFrom(w, [st \in MazeStates(w) |-> IF st = <<s0, "East">> THEN 0 ELSE Unreached])

ToEnd(w, e0) ==
    CostsTo(w, [st \in MazeStates(w) |-> IF st[1] = e0 THEN 0 ELSE Unreached])

\* The minimum cost of a walk from S, facing East, to E
MinCost(w, s0, e0) == Least({FromStart(w, s0)[<<e0, d>>] : d \in Directions16})

\* The tiles of the walks of minimum cost
BestTiles(w, s0, e0) ==
    LET from == FromStart(w, s0)
        to == ToEnd(w, e0)
        best == Least({from[<<e0, d>>] : d \in Directions16})
    IN  {p \in MazeCells(w) : \E d \in Directions16 :
            /\ from[<<p, d>>] < Unreached
            /\ to[<<p, d>>] < Unreached
            /\ from[<<p, d>>] + to[<<p, d>>] = best}

\* C11: solve::<false> returns the minimum cost over all walks from S, facing
\* East, to E (a step costs 1, a 90-degree turn 1000), and the first popped
\* heap entry that is at the end already carries that minimum: the score it
\* sets min_score_to_end to is never replaced and is what the function
\* returns.  Where no walk exists the function panics instead of returning.
C11_Part1ReturnsMinimumCost ==
    [][ /\ (min_score_to_end # -1 /\ d16pc' = d16pc) => min_score_to_end' = min_score_to_end
        /\ answer16_1' # answer16_1 =>
              /\ min_score_to_end # -1
              /\ min_score_to_end = MinCost(walls16, start16, end16)
              /\ answer16_1' = MinCost(walls16, start16, end16)
        /\ (d16pc = "part1" /\ d16pc' = "panicked") =>
              MinCost(walls16, start16, end16) = Unreached
      ]_vars

C11_Witness ==
    /\ d16pc = "part2"
    /\ answer16_1 = 3004
    /\ min_score_to_end = 3004

\* C12: solve::<true> returns the number of distinct tiles that lie on at least
\* one minimum-cost walk from S to E, S and E included.
C12_Part2CountsBestTiles ==
    answer16_2 # -1 =>
        /\ good_seats = BestTiles(walls16, start16, end16)
        /\ answer16_2 = Cardinality(BestTiles(walls16, start16, end16))

\* Two minimum-cost walks over different tiles: around a wall on either side
C12_Witness ==
    /\ d16pc = "done"
    /\ answer16_1 = 3004
    /\ answer16_2 = 8

(***************************************************************************)
(* Day 18: src/bin/day18.rs, part 2                                        *)
(***************************************************************************)
\* The (dy, dx) pairs of the loop in bfs_path_search, as positions
Deltas18 == <<Pos(0, -1), Pos(-1, 0), Pos(0, 1), Pos(1, 0)>>

\* The `for (dy, dx) in ..` loop for one popped queue entry: either the end is
\* found (found is the returned length) or the queue and visited grow
RECURSIVE Neighbours18(_, _, _, _, _, _)
Neighbours18(bytes_map, size, pos, len, k, qv) ==
    IF k > Len(Deltas18) THEN qv
    ELSE LET new_pos == PosAdd(pos, Deltas18[k])
         IN  IF new_pos.y < 0 \/ new_pos.y >= size \/ new_pos.x < 0 \/ new_pos.x >= size
             THEN Neighbours18(bytes_map, size, pos, len, k + 1, qv)
             ELSE IF new_pos \notin bytes_map /\ new_pos \notin qv.visited
             THEN IF new_pos = Pos(size - 1, size - 1)
                  THEN [qv EXCEPT !.found = len + 1]
                  ELSE Neighbours18(bytes_map, size, pos, len, k + 1,
                          [queue |-> Append(qv.queue, [pos |-> new_pos, len |-> len + 1]),
                           visited |-> qv.visited \cup {new_pos},
                           found |-> -1])
             ELSE Neighbours18(bytes_map, size, pos, len, k + 1, qv)

\* The while loop of bfs_path_search; -1 stands for None
RECURSIVE BfsLoop18(_, _, _, _)
BfsLoop18(bytes_map, size, queue, vis) ==
    IF queue = <<>> THEN -1
    ELSE LET qv == Neighbours18(bytes_map, size, Head(queue).pos, Head(queue).len, 1,
                                [queue |-> Tail(queue), visited |-> vis, found |-> -1])
         IN  IF qv.found # -1 THEN qv.found
             ELSE BfsLoop18(bytes_map, size, qv.queue, qv.visited)

\* bytes_map is given as the set of the positions that are true in it
bfs_path_search(bytes_map, size) ==
    BfsLoop18(bytes_map, size, <<[pos |-> Pos(0, 0), len |-> 0]>>, {Pos(0, 0)})

\* The positions set to true from bytes_list[from..=to], indices from 0
BytesSet(list, from, to) == {list[i + 1] : i \in from..to}

\* One iteration of `while b < e`
SearchStep ==
    /\ d18result.t = "none"
    /\ b18 < e18
    /\ LET m == (b18 + e18) \div 2
           bytes_map == BytesSet(bytes_list, 0, start_bytes - 1)
                        \cup BytesSet(bytes_list, start_bytes, m)
           can_reach_end == bfs_path_search(bytes_map, size18) # -1
       IN  IF can_reach_end
           THEN b18' = m + 1 /\ UNCHANGED e18
           ELSE e18' = m /\ UNCHANGED b18
    /\ UNCHANGED <<bytes_list, start_bytes, size18, d18result>>

\* After the loop: bytes_list[b], which panics when b is past the last byte
SearchReturn ==
    /\ d18result.t = "none"
    /\ ~(b18 < e18)
    /\ d18result' = IF b18 < Len(bytes_list)
                    THEN [t |-> "answer", v |-> bytes_list[b18 + 1]]
                    ELSE Panic
    /\ UNCHANGED <<bytes_list, start_bytes, size18, b18, e18>>

MemCells(size) == {Pos(x, y) : x \in 0..(size - 1), y \in 0..(size - 1)}

\* State of solve_part_2 when its loop is entered
D18Init ==
    /\ size18 \in 1..MaxSize
    /\ bytes_list \in UNION {[1..n -> MemCells(size18)] : n \in 0..MaxBytes}
    /\ start_bytes \in 0..Len(bytes_list)
    /\ b18 = start_bytes
    /\ e18 = Len(bytes_list)
    /\ d18result = [t |-> "none"]

D18Next == SearchStep \/ SearchReturn

SpecDay18Init == D18Init /\ RunIdle /\ D6Idle /\ PIdle /\ D3Idle /\ D5Idle /\ D8Idle /\ D20Idle /\ D16Idle
SpecDay18Next == D18Next /\ UNCHANGED <<runVars, d6Vars, pVars, d3Vars, d5Vars, d8Vars, d20Vars, d16Vars>>
SpecDay18 == SpecDay18Init /\ [][SpecDay18Next]_vars

\* ---- paths, from the definition ----
\* The cells reachable from `from` over cells on which no byte has fallen
RECURSIVE Spread18(_, _, _)
Spread18(size, fallen, from) ==
    LET more == from \cup {q \in MemCells(size) \ fallen :
                    \E p \in from : \E k \in 1..4 : q = PosAdd(p, Deltas18[k])}
    IN  IF more = from THEN from ELSE Spread18(size, fallen, more)

\* Some path leads from (0,0) to the exit over cells on which no byte has
\* fallen, both ends included
ExitReachable(size, fallen) ==
    /\ Pos(0, 0) \notin fallen
    /\ Pos(size - 1, size - 1) \in Spread18(size, fallen, {Pos(0, 0)})

\* The indices k at which the exit is cut off once bytes 0..=k have fallen
CutOffAt(size, list) ==
    {k \in 0..(Len(list) - 1) : ~ExitReachable(size, BytesSet(list, 0, k))}

FirstCutOff(size, list) ==
    CHOOSE k \in CutOffAt(size, list) : \A j \in CutOffAt(size, list) : k <= j

\* C13: when the exit is still reachable after the first start_bytes bytes,
\* solve_part_2 returns the coordinates of the byte at the smallest index k
\* such that the exit is unreachable once bytes 0..=k have fallen.
C13_ReturnsFirstCutOff ==
    (/\ d18result.t \notin {"none", "idle"}
     /\ ExitReachable(size18, BytesSet(bytes_list, 0, start_bytes - 1))
     /\ CutOffAt(size18, bytes_list) # {}) =>
        d18result = [t |-> "answer", v |-> bytes_list[FirstCutOff(size18, bytes_list) + 1]]

\* The same for lists in which no byte falls on (0,0)
D18_StartKeptFree ==
    (/\ d18result.t \notin {"none", "idle"}
     /\ Pos(0, 0) \notin BytesSet(bytes_list, 0, Len(bytes_list) - 1)
     /\ ExitReachable(size18, BytesSet(bytes_list, 0, start_bytes - 1))
     /\ CutOffAt(size18, bytes_list) # {}) =>
        d18result = [t |-> "answer", v |-> bytes_list[FirstCutOff(size18, bytes_list) + 1]]

(***************************************************************************)
(* Properties of the run() harness                                         *)
(***************************************************************************)
Answer1 == [kind |-> "answer1", n |-> 1, val |-> 0]
Answer2 == [kind |-> "answer2", n |-> 1, val |-> 0]
Kinds(out) == [i \in 1..Len(out) |-> out[i].kind]
Finished == pc \in {"done", "printed_program"}

\* C1 (as stated): with the timing variable unset, the standard output of a
\* program that ran to its end is exactly two lines, the part-1 answer followed
\* by the part-2 answer, and nothing else.
C1_TwoLinesOnly ==
    (Finished /\ aoctime = "unset") => stdout = <<Answer1, Answer2>>

\* C1 (amended): with the timing variable unset, run() prints solve1's result
\* before solve2's result, each exactly once, and itself prints nothing else;
\* the output is exactly those two lines for every program except day 14,
\* whose solve_part_2 writes REAL_HEIGHT layout rows and an empty line between
\* the two answers, and day 17 run with --print-program, which writes only the
\* disassembly and no answer.
C1_AnswersInOrder ==
    /\ (pc = "done" /\ aoctime = "unset") =>
          /\ SelectKinds(stdout, {"answer1", "answer2"}) = <<Answer1, Answer2>>
          /\ calls1 = 1 /\ calls2 = 1
          /\ IF program = "day14"
             THEN /\ Kinds(stdout) = <<"answer1", "layout", "answer2">>
                  /\ LineCount(stdout) = 2 + REAL_HEIGHT + 1
             ELSE stdout = <<Answer1, Answer2>>
    /\ (pc = "printed_program") =>
          /\ program = "day17" /\ printProgram
          /\ Kinds(stdout) = <<"disasm">>
          /\ LineCount(stdout) = instructions

C1_Witness ==
    /\ pc = "done" /\ aoctime = "unset" /\ program = "day14"
    /\ Len(stdout) = 3

TimeLines(out) == SelectKinds(out, {"time1", "time2"})

TimedRun ==
    /\ calls1 = 1 + TIME_ITERATIONS
    /\ calls2 = 1 + TIME_ITERATIONS
    /\ Kinds(SelectKinds(stdout, {"answer1", "answer2", "time1", "time2"}))
          = <<"answer1", "answer2", "time1", "time2">>

UntimedRun ==
    /\ calls1 = 1
    /\ calls2 = 1
    /\ TimeLines(stdout) = <<>>

\* C2 (as stated): if AOCTIME is set, a finished run has re-run each
\* computation 100 times and printed one timing line per part; otherwise each
\* computation ran once and no timing line was printed.
C2_TimedIffSet ==
    pc = "done" => IF aoctime # "unset" THEN TimedRun ELSE UntimedRun

\* C2 (amended): the timing pass happens exactly when AOCTIME is set to a
\* non-empty Unicode value: then after both answers each computation is re-run
\* exactly 100 times and one timing line per part is printed, part 1 before
\* part 2, each showing the summed elapsed microseconds of its 100 runs divided
\* by 100 (integer division); when AOCTIME is unset, empty or not Unicode each
\* computation runs exactly once and no timing line is printed.
C2_TimedIffNonEmpty ==
    [][ /\ (pc' = "done" /\ pc # "done") =>
              IF aoctime = "nonempty" THEN TimedRun' ELSE UntimedRun'
        /\ (pc = "time1" /\ pc' = "time2") =>
              /\ iter = 100 /\ calls1 = 101
              /\ stdout' = Append(stdout, Line("time1", elapsed_sum \div 100))
        /\ (pc = "time2" /\ pc' = "done") =>
              /\ iter = 100 /\ calls2 = 101
              /\ stdout' = Append(stdout, Line("time2", elapsed_sum \div 100))
      ]_vars

C2_Witness ==
    /\ pc = "done" /\ aoctime = "nonempty"
    /\ Len(TimeLines(stdout)) = 2
    /\ TimeLines(stdout)[1].val = 0
    /\ TimeLines(stdout)[2].val = 1

====
